---- MODULE Spec2Model ----
(***************************************************************************)
(* Session and live-state layer of the UAVCAN GUI tool:                    *)
(*   - the console primitives request / broadcast / subscribe built by     *)
(*     MainWindow._make_console_context (uavcan_gui_tool/main.py),         *)
(*   - the jig status cache JigMonitor (uavcan_gui_tool/panels/            *)
(*     jig_panel.py).                                                      *)
(* Everything runs on the single GUI thread, so every handler is one      *)
(* atomic action.  The clock is in milliseconds and advances in steps of   *)
(* Step; a timer fires at the first modelled instant at or after its due   *)
(* time, before the clock moves on.                                        *)
(***************************************************************************)
EXTENDS Integers, FiniteSets, Sequences, TLC

\* ------------------------------------------------------------------ bounds
Step == 500                 \* clock granularity, milliseconds
MaxTime == 7                \* horizon of a run, in clock steps
MaxCount == 3               \* largest count argument
MaxIntervalSteps == 2       \* largest interval argument, in clock steps
MaxDurationSteps == 2       \* largest duration argument, in clock steps
MaxRemoves == 2             \* remove() calls made on one handle
MaxMessages == 4            \* messages delivered to one subscription
MaxIds == 2                 \* jig module ids
MaxReceipts == 3            \* jig status messages received in a run
MaxQueries == 2             \* find_all() calls made in a run
MaxSpins == 6               \* ticks of the node spin timer in a run

\* --------------------------------------------------------- program values
\* Python's None for optional arguments and unset variables: an integer no
\* count, time or priority of a run can take
None == -1000
default_transfer_priority == 30
\* 3600 * 24 * 365 * 1000 seconds does not fit the checker's 32-bit integers;
\* any value beyond the horizon of a run behaves the same.
SeeYouIn1000Years == 2000000000
TIMEOUT == 2 * 1000         \* JigMonitor.TIMEOUT = 2 seconds, in milliseconds
TimerInterval == 1500       \* self._timer.start(1500)
SpinBudget == 0             \* self._node.spin(0)

Horizon == MaxTime * Step
Priorities == {None, 0, 7}
Intervals == {None} \cup {k * Step : k \in 1..MaxIntervalSteps}
Counts == {None} \cup (0..MaxCount)
Durations == {None} \cup {k * Step : k \in 1..MaxDurationSteps}
Ids == 1..MaxIds

VARIABLES
    now,        \* time.monotonic(), milliseconds
    node,       \* the uavcan node: identity and what it was asked to do
    r,          \* the request() call of the console
    b,          \* the broadcast() call and the closure of its background job
    s,          \* the subscribe() call and the closure of its subscription
    jig,        \* the JigMonitor instance
    win         \* the MainWindow: its node spin timer

vars == <<now, node, r, b, s, jig, win>>

\* -------------------------------------------------------- transport (node)
\* A handle is "none" (never created), "active" (registered) or "removed".
\* Handle.remove() is idempotent.
HandleRemove(h) == IF h = "active" THEN "removed" ELSE h

\* node.broadcast(payload, priority) that succeeded at time t
NodeBroadcast(n, prio, t, late) ==
    [n EXCEPT !.sends = @ + 1,
              !.last_priority = prio,
              !.last_send_at = t,
              !.late_sends = @ + (IF late THEN 1 ELSE 0)]

\* node.broadcast(payload, priority) that raised
NodeBroadcastFails(n) == [n EXCEPT !.send_failures = @ + 1]

\* --------------------------------------------------------------- console
\* The closures of different console calls share no variable, so a run
\* follows the job of one call.
ConsoleIdle == r.ret = "not_called" /\ b.ret = "not_called" /\ s.ret = "not_called"

\* throw_if_anonymous(): TRUE when it raises
throw_if_anonymous_never == FALSE
throw_if_anonymous == node.is_anonymous

\* priority or default_transfer_priority
PriorityOrDefault(p) == IF p = None \/ p = 0 THEN default_transfer_priority ELSE p

\* request(payload, server_node_id, callback, priority, timeout)
request(prio) ==
    /\ ConsoleIdle
    /\ IF throw_if_anonymous
       THEN /\ r' = [r EXCEPT !.ret = "raised_anonymous", !.priority = prio]
            /\ UNCHANGED node
       ELSE /\ r' = [r EXCEPT !.ret = "returned_handle", !.priority = prio]
            /\ node' = [node EXCEPT !.requests = @ + 1,
                                    !.request_priority = PriorityOrDefault(prio)]
    /\ UNCHANGED <<now, b, s, jig, win>>

\* the input validation of broadcast(): TRUE when it raises
BroadcastNotConfigurable(interval, count, duration) ==
    interval = None /\ (duration # None \/ count # None)

\* the termination test of process_next()
ShouldStop_count_only(count, num_broadcasted, t, deadline) ==
    count # None /\ num_broadcasted >= count
ShouldStop_strict_deadline(count, num_broadcasted, t, deadline) ==
    (count # None /\ num_broadcasted >= count) \/ (t > deadline)
ShouldStop_unset_count_stops(count, num_broadcasted, t, deadline) ==
    (count = None \/ num_broadcasted >= count) \/ (t >= deadline)
ShouldStop(count, num_broadcasted, t, deadline) ==
    (count # None /\ num_broadcasted >= count) \/ (t >= deadline)

\* a send at time t is late when the job has a duration and t is at or
\* after (time of the call + duration)
IsLate(t, now0, duration) == duration # None /\ t >= now0 + duration

\* do_broadcast() of broadcast() itself is called outside any try block: the
\* exception leaves broadcast() before node.periodic() is reached
OnFirstSendFailure_job_launched(args) ==
    [args EXCEPT !.ret = IF args.interval = None THEN "returned_none"
                         ELSE "returned_handle",
                 !.timer_handle = IF args.interval = None THEN "none" ELSE "active",
                 !.next_tick = IF args.interval = None THEN None
                               ELSE args.now0 + args.interval]
OnFirstSendFailure(args) == [args EXCEPT !.ret = "raised_send"]

\* broadcast(payload, priority, interval, count, duration)
broadcast(prio, interval, count, duration) ==
    /\ ConsoleIdle
    /\ LET args == [b EXCEPT !.priority = prio, !.interval = interval,
                             !.count = count, !.duration = duration,
                             !.now0 = now]
       IN IF BroadcastNotConfigurable(interval, count, duration)
          THEN /\ b' = [args EXCEPT !.ret = "raised_config"]
               /\ UNCHANGED node
          ELSE IF throw_if_anonymous
          THEN /\ b' = [args EXCEPT !.ret = "raised_anonymous"]
               /\ UNCHANGED node
          ELSE \E ok \in BOOLEAN :
               IF ~ok
               THEN \* the immediate do_broadcast() raised
                    /\ b' = OnFirstSendFailure(args)
                    /\ node' = NodeBroadcastFails(node)
               ELSE IF interval = None
               THEN /\ b' = [args EXCEPT !.ret = "returned_none"]
                    /\ node' = NodeBroadcast(node, PriorityOrDefault(prio), now,
                                               IsLate(now, now, duration))
               ELSE /\ b' = [args EXCEPT
                               !.ret = "returned_handle",
                               !.num_broadcasted = 1,
                               !.deadline = now + (IF duration = None
                                                   THEN SeeYouIn1000Years
                                                   ELSE duration),
                               !.timer_handle = "active",
                               !.next_tick = now + interval]
                    /\ node' = [NodeBroadcast(node, PriorityOrDefault(prio), now,
                                               IsLate(now, now, duration))
                                  EXCEPT !.periodic_calls = @ + 1]
    /\ UNCHANGED <<now, r, s, jig, win>>

\* the except branch of process_next(): the failure is logged and the job
\* removes its own periodic registration
OnSendFailure_uncaught(job) == [job EXCEPT !.escaped = TRUE]
OnSendFailure(job) == [job EXCEPT !.timer_handle = HandleRemove(@)]

\* process_next(): one periodic tick of the background broadcaster
process_next ==
    /\ b.timer_handle = "active"
    /\ now >= b.next_tick
    /\ \E ok \in BOOLEAN :
       LET ticked == [b EXCEPT !.next_tick = @ + b.interval, !.ticks = @ + 1,
                               !.ticked_past_deadline = @ \/ (now >= b.deadline)]
       IN IF ~ok
          THEN /\ b' = OnSendFailure(ticked)
               /\ node' = NodeBroadcastFails(node)
          ELSE /\ node' = NodeBroadcast(node, PriorityOrDefault(b.priority), now,
                                       IsLate(now, b.now0, b.duration))
               /\ b' = [ticked EXCEPT
                          !.num_broadcasted = @ + 1,
                          !.timer_handle =
                              IF ShouldStop(b.count, b.num_broadcasted + 1, now, b.deadline)
                              THEN HandleRemove(@) ELSE @]
    /\ UNCHANGED <<now, r, s, jig, win>>

\* remove() on the handle returned by broadcast(): the handle is timer_handle
BroadcastHandleRemove(job) == [job EXCEPT !.timer_handle = HandleRemove(@)]

broadcast_handle_remove ==
    /\ b.ret = "returned_handle"
    /\ b.removes < MaxRemoves
    /\ b' = [BroadcastHandleRemove(b) EXCEPT !.removes = @ + 1]
    /\ UNCHANGED <<now, node, r, s, jig, win>>

\* the input validation of subscribe(): TRUE when it raises
SubscribeNotConfigurable_on_end_ignored(count, duration, on_end) == FALSE
SubscribeNotConfigurable_or_anonymous(count, duration, on_end) ==
    ((count = None /\ duration = None) /\ on_end) \/ node.is_anonymous
SubscribeNotConfigurable(count, duration, on_end) ==
    (count = None /\ duration = None) /\ on_end

\* subscribe(uavcan_type, callback, count, duration, on_end);
\* on_end is TRUE when a callable was given
subscribe(count, duration, on_end) ==
    /\ ConsoleIdle
    /\ LET args == [s EXCEPT !.count0 = count, !.count = count,
                             !.duration = duration, !.on_end = on_end]
       IN IF SubscribeNotConfigurable(count, duration, on_end)
          THEN /\ s' = [args EXCEPT !.ret = "raised_config"]
               /\ UNCHANGED node
          ELSE /\ s' = [args EXCEPT
                          !.ret = "returned_handle",
                          !.sub_handle = "active",
                          !.timer_handle = IF duration # None THEN "active" ELSE "none",
                          !.due = IF duration # None THEN now + duration ELSE None]
               /\ node' = [node EXCEPT
                             !.add_handler_calls = @ + 1,
                             !.defer_calls = @ + (IF duration # None THEN 1 ELSE 0)]
    /\ UNCHANGED <<now, r, b, jig, win>>

\* stop_now of process_callback(): raised tells whether callback(e) raised,
\* count is the value after the decrement
StopNow_ignores_raise(raised, count) == count # None /\ count <= 0
StopNow_off_by_one(raised, count) == raised \/ (count # None /\ count < 0)
StopNow(raised, count) == raised \/ (count # None /\ count <= 0)

\* try: timer_handle.remove() except Exception: pass -- the deferred call is
\* cancelled; when timer_handle is None the AttributeError is swallowed
CancelDeferred_forgotten(h) == h
CancelDeferred(h) == HandleRemove(h)

\* process_callback(e): the transport delivers one message to the handler;
\* raised: callback(e) raises; on_end_raised: on_end(), if called, raises
process_callback(raised, on_end_raised) ==
    /\ s.sub_handle = "active"
    /\ s.deliveries < MaxMessages
    /\ LET count == IF ~raised /\ s.count # None THEN s.count - 1 ELSE s.count
           stop_now == StopNow(raised, count)
       IN s' = [s EXCEPT
                  !.deliveries = @ + 1,
                  !.callback_calls = @ + 1,
                  !.callback_failures = @ + (IF raised THEN 1 ELSE 0),
                  !.count = count,
                  !.sub_handle = IF stop_now THEN HandleRemove(@) ELSE @,
                  !.timer_handle = IF stop_now THEN CancelDeferred(@) ELSE @,
                  !.on_end_calls = IF stop_now /\ s.on_end THEN @ + 1 ELSE @,
                  \* on_end() is called outside any try block
                  !.escaped = @ \/ (stop_now /\ s.on_end /\ on_end_raised)]
    /\ UNCHANGED <<now, node, r, b, jig, win>>

\* cancel_callback(): the deferred call fires once, duration after subscribe();
\* on_end_raised: on_end(), if called, raises
cancel_callback(on_end_raised) ==
    /\ s.timer_handle = "active"
    /\ now >= s.due
    /\ s' = [s EXCEPT
               !.timer_handle = "fired",
               !.sub_handle = HandleRemove(@),
               \* sub_handle.remove() did not raise: the else branch runs
               !.on_end_calls = IF s.on_end THEN @ + 1 ELSE @,
               \* on_end() in the else branch is not covered by the except
               !.escaped = @ \/ (s.on_end /\ on_end_raised)]
    /\ UNCHANGED <<now, node, r, b, jig, win>>

\* remove() on the handle returned by subscribe(): the handle is sub_handle
SubscribeHandleRemove_with_on_end(sub) ==
    [sub EXCEPT !.sub_handle = HandleRemove(@),
                !.on_end_calls = IF sub.on_end THEN @ + 1 ELSE @]
SubscribeHandleRemove(sub) == [sub EXCEPT !.sub_handle = HandleRemove(@)]

subscribe_handle_remove ==
    /\ s.ret = "returned_handle"
    /\ s.removes < MaxRemoves
    /\ s' = [SubscribeHandleRemove(s) EXCEPT !.removes = @ + 1]
    /\ UNCHANGED <<now, node, r, b, jig, win>>

\* ------------------------------------------------------------- JigMonitor
\* the staleness test of check_for_stale()
IsStale_no_timeout(ts_monotonic, t) == ts_monotonic < t
IsStale_one_step_more(ts_monotonic, t) == (ts_monotonic + TIMEOUT + Step) < t
IsStale(ts_monotonic, t) == (ts_monotonic + TIMEOUT) < t

\* check_for_stale(): the mapping after the sweep at time t
check_for_stale(modules, t) ==
    [nid \in Ids |-> IF modules[nid] # None /\ IsStale(modules[nid], t)
                     THEN None ELSE modules[nid]]

\* the keys of the dict after the sweep, in the order the dict keeps them
KeysAfter(keys, modules) == SelectSeq(keys, LAMBDA nid : modules[nid] # None)

\* the generator of find_all(): walks the items of the dict in its order and
\* yields the entries for which predicate returns true; predicate maps each
\* entry (by id) to the truth value it returns
RECURSIVE Yielded_ignores_predicate(_, _)
Yielded_ignores_predicate(items, predicate) ==
    IF items = <<>> THEN <<>>
    ELSE <<Head(items)>> \o Yielded_ignores_predicate(Tail(items), predicate)
RECURSIVE Yielded(_, _)
Yielded(items, predicate) ==
    IF items = <<>> THEN <<>>
    ELSE (IF predicate[Head(items)] THEN <<Head(items)>> ELSE <<>>)
         \o Yielded(Tail(items), predicate)

\* find_all(predicate): the ids of the entries the generator yields
find_all(predicate) ==
    LET y == Yielded(jig.keys, predicate) IN {y[i] : i \in DOMAIN y}

\* the predicates callers pass: the node table's `lambda _: True`, and one
\* that selects a single module and its complement
Predicates ==
    {[nid \in Ids |-> TRUE], [nid \in Ids |-> nid = 1], [nid \in Ids |-> nid # 1]}

\* a caller runs find_all(predicate) to the end (as JigNodeTable._update does)
find_all_query(predicate) ==
    /\ jig.queries < MaxQueries
    /\ jig' = [jig EXCEPT
                 !.queries = @ + 1,
                 !.last_predicate = predicate,
                 !.last_result = Yielded(jig.keys, predicate)]
    /\ UNCHANGED <<now, node, r, b, s, win>>

\* jig_status_callback(event) for a status message of module nid
jig_status_callback(nid) ==
    /\ jig.receipts < MaxReceipts
    /\ LET swept == check_for_stale([jig._modules EXCEPT ![nid] = now], now)
           keys == IF jig._modules[nid] = None THEN Append(jig.keys, nid)
                   ELSE jig.keys
       IN jig' = [jig EXCEPT
                    !._modules = swept,
                    !.keys = KeysAfter(keys, swept),
                    !.timer_active = TRUE,
                    !.timer_due = now + TimerInterval,
                    !.last_receipt = now,
                    !.received_at = [@ EXCEPT ![nid] = now],
                    !.swept_at = now,
                    !.receipts = @ + 1]
    /\ UNCHANGED <<now, node, r, b, s, win>>

\* self._timer.setSingleShot(True): having fired, the timer is idle until
\* the next start()
SingleShotAfterTimeout_repeating(timer_active) == timer_active
SingleShotAfterTimeout(timer_active) == FALSE

\* _timer.timeout: the single-shot timer fires and runs check_for_stale()
jig_timer_timeout ==
    /\ jig.timer_active
    /\ now >= jig.timer_due
    /\ LET swept == check_for_stale(jig._modules, now)
       IN jig' = [jig EXCEPT
                    !._modules = swept,
                    !.keys = KeysAfter(jig.keys, swept),
                    !.timer_active = SingleShotAfterTimeout(@),
                    !.swept_at = now,
                    !.sweeps = @ + 1]
    /\ UNCHANGED <<now, node, r, b, s, win>>

\* ------------------------------------------------------------- MainWindow
\* what the try/except of _spin_node() leaves of the repeating timer: the
\* failure is logged and the timer keeps running
SpinTimerAfterTick_uncaught(timer_active, raised) == timer_active /\ ~raised
SpinTimerAfterTick(timer_active, raised) == timer_active

\* _spin_node(): one tick of _node_spin_timer (10 ms, far below the clock
\* step); raised: self._node.spin(0) raises
_spin_node(raised) ==
    /\ win.timer_active
    /\ win.ticks < MaxSpins
    /\ win' = [win EXCEPT
                 !.ticks = @ + 1,
                 !.spin_calls = @ + 1,
                 !.last_budget = SpinBudget,
                 !.spin_errors = @ + (IF raised THEN 1 ELSE 0),
                 !.last_raised = raised,
                 !.timer_active = SpinTimerAfterTick(@, raised)]
    /\ UNCHANGED <<now, node, r, b, s, jig>>

\* ----------------------------------------------------------------- clock
TimerDue ==
    \/ b.timer_handle = "active" /\ b.next_tick <= now
    \/ s.timer_handle = "active" /\ s.due <= now
    \/ jig.timer_active /\ jig.timer_due <= now

Advance ==
    /\ now + Step <= Horizon
    /\ ~TimerDue
    /\ now' = now + Step
    /\ UNCHANGED <<node, r, b, s, jig, win>>

\* ------------------------------------------------------------------ init
Init ==
    /\ now = 0
    /\ node \in [is_anonymous : BOOLEAN, sends : {0}, send_failures : {0},
                 last_priority : {None}, last_send_at : {None}, late_sends : {0},
                 periodic_calls : {0}, requests : {0}, request_priority : {None},
                 add_handler_calls : {0}, defer_calls : {0}]
    /\ r = [ret |-> "not_called", priority |-> None]
    /\ b = [ret |-> "not_called", priority |-> None, interval |-> None,
            count |-> None, duration |-> None, now0 |-> None,
            num_broadcasted |-> 0, deadline |-> None,
            timer_handle |-> "none", next_tick |-> None, ticks |-> 0,
            ticked_past_deadline |-> FALSE, removes |-> 0, escaped |-> FALSE]
    /\ s = [ret |-> "not_called", count0 |-> None, count |-> None,
            duration |-> None, on_end |-> FALSE,
            sub_handle |-> "none", timer_handle |-> "none", due |-> None,
            deliveries |-> 0, callback_calls |-> 0, callback_failures |-> 0,
            on_end_calls |-> 0, removes |-> 0, escaped |-> FALSE]
    /\ jig = [_modules |-> [nid \in Ids |-> None], keys |-> <<>>,
              timer_active |-> FALSE, timer_due |-> None,
              last_receipt |-> None, received_at |-> [nid \in Ids |-> None],
              swept_at |-> None, receipts |-> 0, sweeps |-> 0,
              queries |-> 0, last_predicate |-> [nid \in Ids |-> TRUE],
              last_result |-> <<>>]
    /\ win = [timer_active |-> TRUE, ticks |-> 0, spin_calls |-> 0,
              last_budget |-> None, spin_errors |-> 0, last_raised |-> FALSE]

\* the console session: one of request / broadcast / subscribe and its job
Next ==
    \/ \E p \in Priorities : request(p)
    \/ \E p \in Priorities, i \in Intervals, c \in Counts, d \in Durations :
          broadcast(p, i, c, d)
    \/ process_next
    \/ broadcast_handle_remove
    \/ \E c \in Counts, d \in Durations, e \in BOOLEAN : subscribe(c, d, e)
    \/ \E raised \in BOOLEAN, on_end_raised \in BOOLEAN :
          process_callback(raised, on_end_raised)
    \/ \E on_end_raised \in BOOLEAN : cancel_callback(on_end_raised)
    \/ subscribe_handle_remove
    \/ Advance

Spec == Init /\ [][Next]_vars

\* the jig panel: status messages of the jig modules and the monitor's timer
NextCache ==
    \/ \E nid \in Ids : jig_status_callback(nid)
    \/ jig_timer_timeout
    \/ Advance

SpecCache == Init /\ [][NextCache]_vars

\* the jig panel with a caller of find_all(), as the node table's refresh is
NextQuery ==
    \/ \E nid \in Ids : jig_status_callback(nid)
    \/ jig_timer_timeout
    \/ \E predicate \in Predicates : find_all_query(predicate)
    \/ Advance

SpecQuery == Init /\ [][NextQuery]_vars

\* the main window: the ticks of the node spin timer
NextSpin ==
    \/ \E raised \in BOOLEAN : _spin_node(raised)
    \/ Advance

SpecSpin == Init /\ [][NextSpin]_vars

\* ================================================================ claims

\* C1: broadcast(p, interval=i, count=n) with n >= 1 on a non-anonymous node
\* whose sends never fail makes exactly n sends in total: never more than n,
\* and when the job is TERMINATED (its periodic registration removed) it has
\* made n.
C1_ExactlyCountSends ==
    (/\ b.ret = "returned_handle" /\ b.count # None /\ b.count >= 1
     /\ b.duration = None /\ node.send_failures = 0 /\ b.removes = 0)
    => /\ node.sends <= b.count
       /\ (b.timer_handle = "removed") => (node.sends = b.count)

\* C2: when the last receipt (for id X) was at t0 and nothing was received
\* since, find_all at any time t >= t0 + TIMEOUT does not yield X.
C2_EvictedWithinTimeout ==
    \A x \in Ids :
        (/\ jig.last_receipt # None
         /\ jig._modules[x] = jig.last_receipt
         /\ now >= jig.last_receipt + TIMEOUT)
        => x \notin find_all([nid \in Ids |-> TRUE])

\* C3: on_end of a subscription is invoked at most once, and it is invoked
\* in exactly the step in which the subscription leaves ACTIVE (its handler
\* is unregistered), whichever of message delivery, callback failure,
\* duration expiry or manual remove() ends it.
C3_OnEndOnceOnTermination ==
    /\ [][(s'.on_end_calls # s.on_end_calls)
          <=> (s.on_end /\ s.sub_handle = "active" /\ s'.sub_handle # "active")]_vars
    /\ [](s.on_end_calls <= 1)

\* C4: remove() on the subscription handle while the subscription is ACTIVE
\* unregisters the handler, cancels the pending deferred callback and invokes
\* on_end (if set) within the call; when already TERMINATED it invokes nothing.
C4_RemoveTerminatesSubscription ==
    [][(s'.removes = s.removes + 1)
       => IF s.sub_handle = "active"
          THEN /\ s'.sub_handle = "removed"
               /\ s'.timer_handle # "active"
               /\ s'.on_end_calls = s.on_end_calls + (IF s.on_end THEN 1 ELSE 0)
          ELSE /\ s'.on_end_calls = s.on_end_calls
               /\ s'.callback_calls = s.callback_calls]_vars

\* C5 as stated: for every subscribe(t, count=n) the callback is invoked at
\* most n times, and once it has been invoked n times the subscription is
\* terminated and on_end (if set) has fired exactly once.
C5_AtMostCountCallbacks ==
    (s.ret = "returned_handle" /\ s.count0 # None)
    => /\ s.callback_calls <= s.count0
       /\ (s.callback_calls >= 1 /\ s.callback_calls = s.count0)
          => /\ s.sub_handle # "active"
             /\ s.on_end => s.on_end_calls = 1

\* C5 amended: the same for every count n >= 1.
C5_AtMostCountCallbacksPositive ==
    (s.ret = "returned_handle" /\ s.count0 # None /\ s.count0 >= 1)
    => /\ s.callback_calls <= s.count0
       /\ (s.callback_calls = s.count0)
          => /\ s.sub_handle # "active"
             /\ s.on_end => s.on_end_calls = 1

C5_Witness ==
    /\ s.count0 = 2 /\ s.callback_calls = 2 /\ s.on_end /\ s.on_end_calls = 1
    /\ s.sub_handle = "removed" /\ s.removes = 0

\* C6 as stated: a broadcast job with duration d issued at now0 makes no send
\* at any time t >= now0 + d.
C6_NoSendAtOrAfterDeadline ==
    b.duration # None => node.late_sends = 0

\* C6 amended: a broadcast job with duration d > 0 makes at most one send at
\* t >= now0 + d, and once that send is made the job is TERMINATED.
C6_AtMostOneSendAtOrAfterDeadline ==
    b.duration # None
    => /\ node.late_sends <= 1
       /\ node.late_sends = 1 => b.timer_handle = "removed"

C6_Witness ==
    /\ b.duration # None /\ b.count = None /\ node.late_sends = 1
    /\ b.removes = 0 /\ node.send_failures = 0

\* C7: a periodic tick of a broadcast job with a duration that runs at or
\* after the deadline leaves the job TERMINATED (periodic registration
\* removed), whatever count is and however many messages were sent.
C7_TerminatedByFirstTickPastDeadline ==
    [][(b'.ticks = b.ticks + 1 /\ b.duration # None /\ now >= b.deadline)
       => b'.timer_handle = "removed"]_vars

C7_Witness ==
    /\ b.duration # None /\ b.ticked_past_deadline /\ b.timer_handle = "removed"
    /\ b.removes = 0 /\ node.send_failures = 0
    /\ b.count # None /\ b.num_broadcasted < b.count

C9_InconsistentArgumentsRejected ==
    /\ (b.ret # "not_called" /\ b.interval = None
        /\ (b.count # None \/ b.duration # None))
       => /\ b.ret = "raised_config"
          /\ node.sends = 0 /\ node.send_failures = 0
          /\ node.periodic_calls = 0 /\ b.timer_handle = "none"
    /\ (s.ret # "not_called" /\ s.on_end /\ s.count0 = None /\ s.duration = None)
       => /\ s.ret = "raised_config"
          /\ node.add_handler_calls = 0 /\ node.defer_calls = 0
          /\ s.sub_handle = "none" /\ s.timer_handle = "none"

C9_Witness ==
    /\ ~node.is_anonymous
    /\ b.ret = "raised_config" /\ b.interval = None /\ b.count = MaxCount

\* C10: on an anonymous node request and broadcast raise before the node is
\* asked for anything: no request, no broadcast (not even a failed one), no
\* periodic registration.
C10_AnonymousRejected ==
    node.is_anonymous
    => /\ r.ret \in {"not_called", "raised_anonymous"}
       /\ b.ret \in {"not_called", "raised_config", "raised_anonymous"}
       /\ node.requests = 0 /\ node.sends = 0 /\ node.send_failures = 0
       /\ node.periodic_calls = 0 /\ b.timer_handle = "none"

C10_Witness ==
    /\ node.is_anonymous /\ b.ret = "raised_anonymous" /\ b.interval # None

\* C11: a record whose latest receipt was at t1 is in the cache, and yielded
\* by find_all, at every time t with t1 <= t < t1 + TIMEOUT, whatever
\* receipts for other ids, timer firings and sweeps happened in between.
C11_FreshRecordKept ==
    \A x \in Ids :
        (jig.received_at[x] # None /\ now < jig.received_at[x] + TIMEOUT)
        => /\ jig._modules[x] = jig.received_at[x]
           /\ x \in find_all([nid \in Ids |-> TRUE])

C11_Witness ==
    /\ jig.received_at[1] = 0 /\ jig.received_at[2] = now /\ now > 0
    /\ jig.sweeps = 1 /\ jig.swept_at = now /\ now < TIMEOUT
    /\ jig._modules[1] = 0

\* C12: a find_all(predicate) run yields, each once, exactly the records in
\* the mapping at that moment for which predicate is true, and leaves the
\* mapping and the inactivity timer as they were.
C12_FindAllExact ==
    [][(jig'.queries = jig.queries + 1)
       => /\ {jig'.last_result[i] : i \in DOMAIN jig'.last_result}
             = {nid \in Ids : jig._modules[nid] # None /\ jig'.last_predicate[nid]}
          /\ Len(jig'.last_result)
             = Cardinality({nid \in Ids : jig._modules[nid] # None
                                          /\ jig'.last_predicate[nid]})
          /\ jig'._modules = jig._modules
          /\ jig'.timer_active = jig.timer_active
          /\ jig'.timer_due = jig.timer_due]_vars

C12_Witness ==
    /\ jig.queries = 2 /\ jig.last_result = <<2>>
    /\ jig.last_predicate = [nid \in Ids |-> TRUE]
    /\ jig.receipts = 2 /\ jig.received_at[1] = 0 /\ jig.received_at[2] > 0

C17_ReceiptRearmsTimerByTimeout ==
    [][(jig'.receipts = jig.receipts + 1)
       => /\ \E x \in Ids : jig'._modules[x] = now /\ jig'.received_at[x] = now
          /\ jig'.swept_at = now
          /\ jig'.timer_active
          /\ jig'.timer_due = now + TIMEOUT]_vars

\* C13: every tick of the spin timer calls node.spin with budget 0, and a
\* failure of spin does not stop the timer: the timer stays armed and every
\* tick so far, also those after a failed one, has called spin.
C13_SpinTickSurvivesFailure ==
    /\ win.timer_active
    /\ win.spin_calls = win.ticks
    /\ win.ticks > 0 => win.last_budget = 0

C13_Witness ==
    /\ win.spin_errors >= 1 /\ ~win.last_raised /\ win.ticks >= 2
    /\ win.spin_calls = win.ticks

\* C14: an exception raised by the callback or by on_end of a subscription
\* never propagates out of the subscription's handler or deferred callback.
C14_UserExceptionsContained ==
    ~s.escaped

\* C15: a priority the caller supplies, the value 0 included, reaches
\* node.request and node.broadcast unchanged; the default is used only when
\* priority is left unset.
C15_SuppliedPriorityUnchanged ==
    /\ r.ret = "returned_handle"
       => node.request_priority
          = (IF r.priority = None THEN default_transfer_priority ELSE r.priority)
    /\ node.sends > 0
       => node.last_priority
          = (IF b.priority = None THEN default_transfer_priority ELSE b.priority)

\* C18: a periodic tick whose send raises leaves the job TERMINATED: the
\* periodic registration is removed, the failed send is neither counted nor
\* repeated, the exception stays inside the tick, and a job that is no
\* longer registered attempts no send.
C18_FailedSendTerminatesJob ==
    /\ [][(b'.ticks = b.ticks + 1 /\ node'.send_failures = node.send_failures + 1)
          => /\ b'.timer_handle = "removed"
             /\ b'.num_broadcasted = b.num_broadcasted
             /\ node'.sends = node.sends
             /\ ~b'.escaped]_vars
    /\ [][(b.ret = "returned_handle" /\ b.timer_handle # "active")
          => /\ node'.sends = node.sends
             /\ node'.send_failures = node.send_failures
             /\ b'.timer_handle = b.timer_handle]_vars

C18_Witness ==
    /\ b.ticks = 2 /\ node.send_failures = 1 /\ node.sends = 2
    /\ b.timer_handle = "removed" /\ b.removes = 0
    /\ b.count = None /\ b.duration = None /\ now >= b.next_tick + b.interval

\* C19: a delivery whose callback raises terminates the subscription in that
\* delivery: the handler is unregistered, the deferred duration callback is
\* no longer pending (and never becomes pending again), and on_end, if
\* set, is invoked, whatever count and duration are.
C19_CallbackFailureTerminates ==
    /\ [][(s'.callback_failures = s.callback_failures + 1)
          => /\ s'.sub_handle = "removed"
             /\ s'.timer_handle # "active"
             /\ s'.on_end_calls = s.on_end_calls + (IF s.on_end THEN 1 ELSE 0)]_vars
    /\ [][(s.ret = "returned_handle" /\ s.timer_handle # "active")
          => s'.timer_handle = s.timer_handle]_vars

C19_Witness ==
    /\ s.callback_failures = 1 /\ s.count0 = None /\ s.duration # None
    /\ s.on_end /\ s.on_end_calls = 1 /\ s.timer_handle = "removed"
    /\ s.removes = 0 /\ now > s.due

\* C20: the deferred callback of a subscription with a duration fires no
\* earlier than creation time + duration; when the subscription is still
\* ACTIVE the firing unregisters the handler and invokes on_end once, and no
\* message reaches the callback afterwards; it does not fire when the
\* subscription already terminated by count or by a callback failure.
C20_DurationExpiryTerminates ==
    /\ [][(s.timer_handle = "active" /\ s'.timer_handle = "fired")
          => /\ now >= s.due
             /\ s.sub_handle = "active"
                => /\ s'.sub_handle = "removed"
                   /\ s'.on_end_calls = s.on_end_calls + (IF s.on_end THEN 1 ELSE 0)
                   /\ s'.callback_calls = s.callback_calls
             /\ s.sub_handle # "active" => s.removes > 0]_vars
    /\ [][(s.timer_handle = "fired")
          => /\ s'.callback_calls = s.callback_calls
             /\ s'.on_end_calls = s.on_end_calls]_vars

C20_Witness ==
    /\ s.timer_handle = "fired" /\ s.sub_handle = "removed" /\ s.removes = 0
    /\ s.on_end /\ s.on_end_calls = 1 /\ s.callback_calls = 1
    /\ s.count0 = 2 /\ now > s.due

\* C21: a broadcast job created with interval and neither count nor duration,
\* whose sends all succeed, keeps its periodic registration until remove() is
\* called on its handle, has made one send per tick (plus the immediate one),
\* and is stopped once remove() was called.
C21_UnboundedJobRunsUntilRemoved ==
    (/\ b.ret = "returned_handle"
     /\ b.count = None /\ b.duration = None
     /\ node.send_failures = 0)
    => /\ node.sends = 1 + b.ticks
       /\ b.num_broadcasted = node.sends
       /\ b.removes = 0 => b.timer_handle = "active"
       /\ b.removes > 0 => b.timer_handle = "removed"

C21_Witness ==
    /\ b.ret = "returned_handle" /\ b.count = None /\ b.duration = None
    /\ b.interval = Step /\ node.send_failures = 0 /\ b.removes = 0
    /\ now = Horizon /\ b.ticks = MaxTime /\ node.sends = MaxTime + 1
    /\ b.timer_handle = "active"

\* C22: the inactivity timer is single-shot and armed only by a receipt: a
\* timer-triggered sweep leaves no timer pending, a timer becomes pending only
\* in a receipt, the timer has fired at most once per receipt, and while no
\* timer is pending and no status message arrives no sweep runs and the
\* mapping keeps every record it holds.
C22_SingleShotArmedByReceipt ==
    [][/\ (jig'.sweeps # jig.sweeps)
          => (jig.timer_active /\ ~jig'.timer_active
              /\ jig'.receipts = jig.receipts)
       /\ (jig'.timer_active /\ ~jig.timer_active)
          => jig'.receipts = jig.receipts + 1
       /\ (~jig.timer_active /\ jig'.receipts = jig.receipts)
          => (jig'._modules = jig._modules /\ jig'.sweeps = jig.sweeps)
       /\ jig'.sweeps <= jig'.receipts]_vars

\* a record that survived the timer-triggered sweep is still cached when it
\* is older than TIMEOUT, no status message having arrived since
C22_Witness ==
    /\ jig.receipts = 1 /\ jig.sweeps = 1 /\ ~jig.timer_active
    /\ jig.received_at[1] = 0 /\ jig._modules[1] = 0
    /\ now > TIMEOUT + Step

\* C23: when the immediate send of broadcast() raises, the exception reaches
\* the caller, no periodic callback is registered and no handle is returned,
\* whatever interval was given: nothing is ever sent by that call.
C23_FirstSendFailurePropagates ==
    (b.ret # "not_called" /\ node.send_failures > 0 /\ node.sends = 0)
    => /\ b.ret = "raised_send"
       /\ b.timer_handle = "none"
       /\ node.periodic_calls = 0
       /\ b.ticks = 0 /\ node.send_failures = 1

C23_Witness ==
    /\ b.ret = "raised_send" /\ b.interval = Step /\ b.count = None
    /\ node.send_failures = 1 /\ node.sends = 0
    /\ now = Horizon /\ b.timer_handle = "none" /\ node.periodic_calls = 0

\* C24: subscribe() makes no anonymous-node check: whether or not the local
\* node is anonymous, a call with a valid argument combination registers its
\* handler (and the deferred callback when duration is set) and returns a
\* handle, and only on_end without count and duration is rejected; request()
\* and broadcast() on an anonymous node fail and reach the node with nothing.
C24_SubscribeIgnoresAnonymous ==
    /\ s.ret # "not_called"
       => IF s.count0 = None /\ s.duration = None /\ s.on_end
          THEN s.ret = "raised_config" /\ node.add_handler_calls = 0
          ELSE /\ s.ret = "returned_handle"
               /\ node.add_handler_calls = 1
               /\ node.defer_calls = (IF s.duration # None THEN 1 ELSE 0)
    /\ (node.is_anonymous /\ r.ret # "not_called")
       => (r.ret = "raised_anonymous" /\ node.requests = 0)
    /\ (node.is_anonymous /\ b.ret # "not_called")
       => /\ b.ret \in {"raised_config", "raised_anonymous"}
          /\ node.sends = 0 /\ node.send_failures = 0
          /\ node.periodic_calls = 0

\* on an anonymous node a subscription with a duration has received a message
C24_Witness ==
    /\ node.is_anonymous
    /\ s.ret = "returned_handle" /\ s.duration = Step /\ s.count0 = None
    /\ node.add_handler_calls = 1 /\ node.defer_calls = 1
    /\ s.callback_calls = 1 /\ s.sub_handle = "active"

TypeOK == now \in 0..Horizon
====
